---- MODULE Spec2Model ----
(***************************************************************************)
(* A model of autogpt/commands/file_operations.py: the path guard          *)
(* (safe_join), the operation log (check_duplicate_operation,              *)
(* log_operation), the chunker (split_file) and the five file operations   *)
(* (read_file, write_to_file, append_to_file, delete_file, search_files).  *)
(*                                                                         *)
(* Strings are sequences of tokens.  Every character the code inspects or  *)
(* compares one by one (path characters, the characters of file names and  *)
(* of file contents, "\n" and "\r") is a token of its own; a literal that  *)
(* the code only ever emits whole ("Error: ", "write", ": ", a message of  *)
(* the operating system) is a single token.                                *)
(***************************************************************************)
EXTENDS Integers, Sequences, FiniteSets, TLC

VARIABLES
    working_directory_restricted, \* CFG.working_directory_restricted as a boolean
    fs,          \* the file system: [files: path -> content, dirs: set of paths]
    op,          \* the call made last: [kind, filename, text]
    result,      \* what that call gave: [raised, text, list]
    written,     \* history: the filenames whose write_to_file returned success
    deleted,     \* history: the filenames whose delete_file returned success
    budget,      \* number of calls the behaviour may still make
    jpaths,      \* safe_join: the *paths argument
    jresult,     \* safe_join: [state, path] with state in pending/returned/raised
    content,     \* split_file: the content argument
    max_length,  \* split_file: the max_length argument
    overlap,     \* split_file: the overlap argument
    start,       \* split_file: the local variable start
    chunks,      \* split_file: the chunks yielded so far
    starts,      \* split_file: the value of start at each yield
    pc           \* split_file: "loop" or "done" ("idle" outside the chunker)

vars == <<working_directory_restricted, fs, op, result, written, deleted, budget,
          jpaths, jresult, content, max_length, overlap, start, chunks, starts, pc>>

fileStoreVars == <<fs, op, result, written, deleted, budget>>
joinVars == <<jpaths, jresult>>
splitVars == <<content, max_length, overlap, start, chunks, starts, pc>>
\* what the file store's operations leave alone
otherVars == <<working_directory_restricted, joinVars, splitVars>>

----------------------------------------------------------------------------
(* Bounds of the model *)

\* calls made in one behaviour of the file store
MaxOps == 3
\* calls made in one behaviour of the file store on the log's few names
MaxLogOps == 5
\* nested append_to_file frames the interpreter's recursion limit allows
RecursionLimit == 2
\* segments passed to safe_join
MaxSegments == 2
\* length of the content given to split_file
MaxContentLen == 6
\* largest max_length given to split_file
MaxMaxLength == 3

----------------------------------------------------------------------------
(* Python's str operations, on sequences of tokens *)

startswith(s, prefix) ==
    /\ Len(prefix) <= Len(s)
    /\ SubSeq(s, 1, Len(prefix)) = prefix

\* sub in s
str_contains(s, sub) ==
    \E i \in 0..(Len(s) - Len(sub)) : SubSeq(s, i + 1, i + Len(sub)) = sub

RECURSIVE str_split(_, _, _)
\* s.split("/"), with cur the component being read and acc those read
str_split(s, cur, acc) ==
    IF s = <<>> THEN Append(acc, cur)
    ELSE IF Head(s) = "/" THEN str_split(Tail(s), <<>>, Append(acc, cur))
    ELSE str_split(Tail(s), Append(cur, Head(s)), acc)

RECURSIVE str_join(_)
\* "/".join(comps)
str_join(comps) ==
    IF comps = <<>> THEN <<>>
    ELSE IF Len(comps) = 1 THEN comps[1]
    ELSE comps[1] \o <<"/">> \o str_join(Tail(comps))

----------------------------------------------------------------------------
(* posixpath *)

RECURSIVE path_join(_, _)
\* os.path.join(a, *paths)
path_join(a, paths) ==
    IF paths = <<>> THEN a
    ELSE LET b == Head(paths)
             joined == IF startswith(b, <<"/">>) THEN b
                       ELSE IF a = <<>> \/ a[Len(a)] = "/" THEN a \o b
                       ELSE a \o <<"/">> \o b
         IN  path_join(joined, Tail(paths))

RECURSIVE norm_comps(_, _, _)
\* the loop of os.path.normpath over the components
norm_comps(comps, new_comps, initial_slashes) ==
    IF comps = <<>> THEN new_comps
    ELSE LET comp == Head(comps)
             n == Len(new_comps)
         IN  IF comp = <<>> \/ comp = <<".">>
               THEN norm_comps(Tail(comps), new_comps, initial_slashes)
             ELSE IF \/ comp # <<".", ".">>
                     \/ (initial_slashes = 0 /\ n = 0)
                     \/ (n > 0 /\ new_comps[n] = <<".", ".">>)
               THEN norm_comps(Tail(comps), Append(new_comps, comp), initial_slashes)
             ELSE IF n > 0
               THEN norm_comps(Tail(comps), SubSeq(new_comps, 1, n - 1), initial_slashes)
             ELSE norm_comps(Tail(comps), new_comps, initial_slashes)

\* os.path.normpath(path)
normpath(path) ==
    IF path = <<>> THEN <<".">>
    ELSE LET initial_slashes ==
                 IF ~startswith(path, <<"/">>) THEN 0
                 ELSE IF startswith(path, <<"/", "/">>)
                         /\ ~startswith(path, <<"/", "/", "/">>) THEN 2
                 ELSE 1
             comps == norm_comps(str_split(path, <<>>, <<>>), <<>>, initial_slashes)
             joined == str_join(comps)
             slashes == [i \in 1..initial_slashes |-> "/"]
             p == slashes \o joined
         IN  IF p = <<>> THEN <<".">> ELSE p

RECURSIVE commonprefix(_, _)
\* os.path.commonprefix([a, b]): the longest common leading run of characters
commonprefix(a, b) ==
    IF a = <<>> \/ b = <<>> \/ Head(a) # Head(b) THEN <<>>
    ELSE <<Head(a)>> \o commonprefix(Tail(a), Tail(b))

\* os.path.dirname(p)
dirname(p) ==
    LET slashAt == {i \in 1..Len(p) : p[i] = "/"}
        i == IF slashAt = {} THEN 0 ELSE CHOOSE k \in slashAt : \A j \in slashAt : j <= k
        head == SubSeq(p, 1, i)
        nonSlash == {k \in 1..Len(head) : head[k] # "/"}
    IN  IF nonSlash = {} THEN head
        ELSE SubSeq(head, 1, CHOOSE k \in nonSlash : \A j \in nonSlash : j <= k)

\* os.path.basename(p)
basename(p) ==
    LET slashAt == {i \in 1..Len(p) : p[i] = "/"}
        i == IF slashAt = {} THEN 0 ELSE CHOOSE k \in slashAt : \A j \in slashAt : j <= k
    IN  SubSeq(p, i + 1, Len(p))

----------------------------------------------------------------------------
(* Module constants *)

WORKING_DIRECTORY == <<"/", "w">>
LOG_FILE == <<"l", "o", "g">>
LOG_FILE_PATH == WORKING_DIRECTORY \o <<"/">> \o LOG_FILE

----------------------------------------------------------------------------
(* safe_join *)

\* safe_join(base, *paths): [raised, path]; raised stands for the ValueError
safe_join(base, paths) ==
    IF working_directory_restricted
      THEN LET new_path == normpath(path_join(base, paths))
           IN  IF commonprefix(base, new_path) # base
                 THEN [raised |-> TRUE, path |-> <<>>]
                 ELSE [raised |-> FALSE, path |-> new_path]
      ELSE [raised |-> FALSE, path |-> normpath(path_join(<<"/">>, paths))]

----------------------------------------------------------------------------
(* The file system, as the calls of the os module see it *)

\* os.path.exists(p)
path_exists(f, p) == p \in f.dirs \/ p \in DOMAIN f.files

\* p and the directories above it
RECURSIVE dir_chain(_)
dir_chain(p) == IF dirname(p) = p THEN {p} ELSE {p} \cup dir_chain(dirname(p))

\* the message of the OSError for a path that cannot be opened
os_error(f, p) ==
    IF p \in f.dirs THEN <<"[Errno 21] Is a directory: '">> \o p \o <<"'">>
    ELSE IF \E d \in dir_chain(dirname(p)) : d \in DOMAIN f.files
      THEN <<"[Errno 20] Not a directory: '">> \o p \o <<"'">>
    ELSE <<"[Errno 2] No such file or directory: '">> \o p \o <<"'">>

\* os.makedirs(d), called for a d that does not exist: [ok, fs, err]
makedirs(f, d) ==
    IF \E a \in dir_chain(d) : a \in DOMAIN f.files
      THEN [ok |-> FALSE, fs |-> f, err |-> <<"[Errno 20] Not a directory: '">> \o d \o <<"'">>]
      ELSE [ok |-> TRUE, fs |-> [f EXCEPT !.dirs = @ \cup dir_chain(d)], err |-> <<>>]

\* the file p holding data
put_file(f, p, data) ==
    [f EXCEPT !.files = [q \in (DOMAIN f.files) \cup {p} |-> IF q = p THEN data ELSE f.files[q]]]

\* os.linesep
linesep == <<"\n">>

RECURSIVE translate_write(_)
\* what a text-mode file writes for a text: "\n" becomes os.linesep
translate_write(text) ==
    IF text = <<>> THEN <<>>
    ELSE (IF Head(text) = "\n" THEN linesep ELSE <<Head(text)>>) \o translate_write(Tail(text))

RECURSIVE translate_read(_)
\* what a text-mode file (newline=None) reads: "\r\n" and "\r" become "\n"
translate_read(data) ==
    IF data = <<>> THEN <<>>
    ELSE IF Head(data) = "\r"
      THEN IF Len(data) >= 2 /\ data[2] = "\n"
             THEN <<"\n">> \o translate_read(Tail(Tail(data)))
             ELSE <<"\n">> \o translate_read(Tail(data))
    ELSE <<Head(data)>> \o translate_read(Tail(data))

\* with open(p, "w") as f: f.write(text): [ok, fs, err]
open_write(f, p, text) ==
    IF p \in f.dirs \/ dirname(p) \notin f.dirs
      THEN [ok |-> FALSE, fs |-> f, err |-> os_error(f, p)]
      ELSE [ok |-> TRUE, fs |-> put_file(f, p, translate_write(text)), err |-> <<>>]

\* with open(p, "a") as f: f.write(text): [ok, fs, err]
open_append(f, p, text) ==
    IF p \in f.dirs \/ dirname(p) \notin f.dirs
      THEN [ok |-> FALSE, fs |-> f, err |-> os_error(f, p)]
      ELSE LET old == IF p \in DOMAIN f.files THEN f.files[p] ELSE <<>>
           IN  [ok |-> TRUE, fs |-> put_file(f, p, old \o translate_write(text)), err |-> <<>>]

\* with open(p, "r") as f: f.read(): [ok, text, err]
open_read(f, p) ==
    IF p \in DOMAIN f.files
      THEN [ok |-> TRUE, text |-> translate_read(f.files[p]), err |-> <<>>]
      ELSE [ok |-> FALSE, text |-> <<>>, err |-> os_error(f, p)]

\* os.remove(p): [ok, fs, err]
os_remove(f, p) ==
    IF p \in DOMAIN f.files
      THEN [ok |-> TRUE,
            fs |-> [f EXCEPT !.files = [q \in (DOMAIN f.files) \ {p} |-> f.files[q]]],
            err |-> <<>>]
      ELSE [ok |-> FALSE, fs |-> f,
            err |-> IF p \in f.dirs
                      THEN <<"[Errno 21] Is a directory: '">> \o p \o <<"'">>
                      ELSE os_error(f, p)]

----------------------------------------------------------------------------
(* The results the operations return *)

\* f"Error: {str(e)}"
error_text(msg) == <<"Error: ">> \o msg

PathEscapeMessage == <<"Attempted to access outside of working directory.">>
RecursionMessage == <<"maximum recursion depth exceeded">>
DuplicateWriteText == <<"Error: File has already been updated.">>
DuplicateDeleteText == <<"Error: File has already been deleted.">>
WriteSuccessText == <<"File written to successfully.">>
AppendSuccessText == <<"Text appended successfully.">>
DeleteSuccessText == <<"File deleted successfully.">>
LogHeader == <<"File Operation Logger ">>

\* f"{operation}: {filename}\n"
log_entry(operation, filename) == <<operation, ": ">> \o filename \o <<"\n">>

----------------------------------------------------------------------------
(* read_file, check_duplicate_operation *)

\* read_file(filename): the text returned
read_file(f, filename) ==
    LET j == safe_join(WORKING_DIRECTORY, <<filename>>)
    IN  IF j.raised THEN error_text(PathEscapeMessage)
        ELSE LET o == open_read(f, j.path)
             IN  IF o.ok THEN o.text ELSE error_text(o.err)

\* check_duplicate_operation(operation, filename)
check_duplicate_operation(f, operation, filename) ==
    str_contains(read_file(f, LOG_FILE), log_entry(operation, filename))

----------------------------------------------------------------------------
(* log_operation and append_to_file, which call each other.  depth is the  *)
(* number of log_operation frames on the stack; a call beyond               *)
(* RecursionLimit raises RecursionError in the caller.                      *)

RECURSIVE log_operation(_, _, _, _)
RECURSIVE append_to_file(_, _, _, _)

\* log_operation(operation, filename): [raised, fs]
log_operation(f, operation, filename, depth) ==
    IF depth > RecursionLimit THEN [raised |-> TRUE, fs |-> f]
    ELSE LET created == IF ~path_exists(f, LOG_FILE_PATH)
                          THEN open_write(f, LOG_FILE_PATH, LogHeader)
                          ELSE [ok |-> TRUE, fs |-> f, err |-> <<>>]
         IN  IF ~created.ok THEN [raised |-> TRUE, fs |-> f]
             ELSE [raised |-> FALSE,
                   fs |-> append_to_file(created.fs, LOG_FILE,
                                         log_entry(operation, filename), depth).fs]

\* append_to_file(filename, text): [fs, ret]
append_to_file(f, filename, text, depth) ==
    LET j == safe_join(WORKING_DIRECTORY, <<filename>>)
    IN  IF j.raised THEN [fs |-> f, ret |-> error_text(PathEscapeMessage)]
        ELSE LET o == open_append(f, j.path, text)
             IN  IF ~o.ok THEN [fs |-> f, ret |-> error_text(o.err)]
                 ELSE LET l == log_operation(o.fs, "append", filename, depth + 1)
                      IN  IF l.raised
                            THEN [fs |-> l.fs, ret |-> error_text(RecursionMessage)]
                            ELSE [fs |-> l.fs, ret |-> AppendSuccessText]

----------------------------------------------------------------------------
(* write_to_file, delete_file *)

\* write_to_file(filename, text): [fs, ret]
write_to_file(f, filename, text) ==
    IF check_duplicate_operation(f, "write", filename)
      THEN [fs |-> f, ret |-> DuplicateWriteText]
    ELSE LET j == safe_join(WORKING_DIRECTORY, <<filename>>)
         IN  IF j.raised THEN [fs |-> f, ret |-> error_text(PathEscapeMessage)]
             ELSE LET directory == dirname(j.path)
                      m == IF ~path_exists(f, directory) THEN makedirs(f, directory)
                           ELSE [ok |-> TRUE, fs |-> f, err |-> <<>>]
                  IN  IF ~m.ok THEN [fs |-> f, ret |-> error_text(m.err)]
                      ELSE LET o == open_write(m.fs, j.path, text)
                           IN  IF ~o.ok THEN [fs |-> m.fs, ret |-> error_text(o.err)]
                               ELSE LET l == log_operation(o.fs, "write", filename, 1)
                                    IN  IF l.raised
                                          THEN [fs |-> l.fs, ret |-> error_text(RecursionMessage)]
                                          ELSE [fs |-> l.fs, ret |-> WriteSuccessText]

\* delete_file(filename): [fs, ret]
delete_file(f, filename) ==
    IF check_duplicate_operation(f, "delete", filename)
      THEN [fs |-> f, ret |-> DuplicateDeleteText]
    ELSE LET j == safe_join(WORKING_DIRECTORY, <<filename>>)
         IN  IF j.raised THEN [fs |-> f, ret |-> error_text(PathEscapeMessage)]
             ELSE LET o == os_remove(f, j.path)
                  IN  IF ~o.ok THEN [fs |-> f, ret |-> error_text(o.err)]
                      ELSE LET l == log_operation(o.fs, "delete", filename, 1)
                           IN  IF l.raised
                                 THEN [fs |-> l.fs, ret |-> error_text(RecursionMessage)]
                                 ELSE [fs |-> l.fs, ret |-> DeleteSuccessText]

----------------------------------------------------------------------------
(* search_files *)

RECURSIVE listdir(_)
\* the entries of a directory in the order the operating system gives them:
\* some fixed order of the set
listdir(names) ==
    IF names = {} THEN <<>>
    ELSE LET x == CHOOSE n \in names : TRUE
         IN  <<x>> \o listdir(names \ {x})

\* the components of a normalised path
path_comps(p) == SelectSeq(str_split(p, <<>>, <<>>), LAMBDA c : c # <<>>)

\* os.path.relpath(path, start_dir)
relpath(path, start_dir) ==
    LET start_list == path_comps(start_dir)
        path_list == path_comps(path)
        agree == {k \in 0..Len(start_list) :
                     /\ k <= Len(path_list)
                     /\ \A m \in 1..k : start_list[m] = path_list[m]}
        i == CHOOSE k \in agree : \A m \in agree : m <= k
        rel_list == [k \in 1..(Len(start_list) - i) |-> <<".", ".">>]
                    \o SubSeq(path_list, i + 1, Len(path_list))
    IN  IF rel_list = <<>> THEN <<".">> ELSE str_join(rel_list)

RECURSIVE walk_files_unfiltered(_, _, _)
\* walk_files without the test file.startswith(".")
walk_files_unfiltered(root, files, found) ==
    IF files = <<>> THEN found
    ELSE walk_files_unfiltered(root, Tail(files),
                               Append(found, relpath(path_join(root, <<basename(Head(files))>>),
                                                     WORKING_DIRECTORY)))

RECURSIVE walk_files(_, _, _)
RECURSIVE walk_dirs(_, _, _)

\* the loop "for file in files" of search_files, for one root of os.walk
walk_files(root, files, found) ==
    IF files = <<>> THEN found
    ELSE LET file == basename(Head(files))
         IN  IF startswith(file, <<".">>)
               THEN walk_files(root, Tail(files), found)
               ELSE walk_files(root, Tail(files),
                               Append(found, relpath(path_join(root, <<file>>),
                                                     WORKING_DIRECTORY)))

\* os.walk(top), top-down: the files of each root, then its subdirectories
walk_dirs(f, tops, found) ==
    IF tops = <<>> THEN found
    ELSE LET root == Head(tops)
             files == listdir({q \in DOMAIN f.files : dirname(q) = root})
             subdirs == listdir({d \in f.dirs : dirname(d) = root /\ d # root})
             here == walk_files(root, files, found)
         IN  walk_dirs(f, Tail(tops), walk_dirs(f, subdirs, here))

\* search_files(directory): [raised, list]
search_files(f, directory) ==
    LET j == IF directory \in {<<>>, <<"/">>}
               THEN [raised |-> FALSE, path |-> WORKING_DIRECTORY]
               ELSE safe_join(WORKING_DIRECTORY, <<directory>>)
    IN  IF j.raised THEN [raised |-> TRUE, list |-> <<>>]
        ELSE IF j.path \notin f.dirs THEN [raised |-> FALSE, list |-> <<>>]
        ELSE [raised |-> FALSE, list |-> walk_dirs(f, <<j.path>>, <<>>)]

----------------------------------------------------------------------------
(* The file store as a state machine: one action per operation *)

\* the file names the calls are made with
Filenames ==
    { <<"a">>,                      \* a.txt
      <<".", "d", "/", "a">>,       \* a file in a dot directory
      <<".", "h">>,                 \* a dot file
      <<".", ".", "/", "a">> }      \* out of the root

\* the texts written
Texts == { <<"x">>, <<"y", "\r", "z">> }

\* the texts appended
AppendTexts == { <<"x">> }

\* the directories searched
SearchDirs == { <<>>, <<"/">>, <<".", "d">>, <<".", ".">> }

NoResult == [raised |-> FALSE, text |-> <<>>, list |-> <<>>]
TextResult(t) == [raised |-> FALSE, text |-> t, list |-> <<>>]

\* the tree after the module is imported: the working directory exists
InitialFs == [files |-> <<>>, dirs |-> {<<"/">>, WORKING_DIRECTORY}]

JoinIdle == /\ jpaths = <<>>
            /\ jresult = [state |-> "idle", path |-> <<>>]

SplitIdle == /\ content = <<>>
             /\ max_length = 1
             /\ overlap = 0
             /\ start = 0
             /\ chunks = <<>>
             /\ starts = <<>>
             /\ pc = "idle"

\* The file operations are followed with the restriction enabled; safe_join
\* is also followed with it disabled, under SpecJoin.
Init ==
    /\ working_directory_restricted = TRUE
    /\ fs = InitialFs
    /\ op = [kind |-> "none", filename |-> <<>>, text |-> <<>>]
    /\ result = NoResult
    /\ written = {}
    /\ deleted = {}
    /\ budget = MaxOps
    /\ JoinIdle
    /\ SplitIdle

Read(filename) ==
    /\ budget > 0
    /\ op' = [kind |-> "read", filename |-> filename, text |-> <<>>]
    /\ result' = TextResult(read_file(fs, filename))
    /\ budget' = budget - 1
    /\ UNCHANGED <<fs, written, deleted>>
    /\ UNCHANGED otherVars

Write(filename, text) ==
    /\ budget > 0
    /\ LET r == write_to_file(fs, filename, text)
       IN  /\ fs' = r.fs
           /\ result' = TextResult(r.ret)
           /\ written' = IF r.ret = WriteSuccessText THEN written \cup {filename} ELSE written
    /\ op' = [kind |-> "write", filename |-> filename, text |-> text]
    /\ budget' = budget - 1
    /\ UNCHANGED <<deleted, otherVars>>

AppendTo(filename, text) ==
    /\ budget > 0
    /\ LET r == append_to_file(fs, filename, text, 0)
       IN  /\ fs' = r.fs
           /\ result' = TextResult(r.ret)
    /\ op' = [kind |-> "append", filename |-> filename, text |-> text]
    /\ budget' = budget - 1
    /\ UNCHANGED <<written, deleted, otherVars>>

Delete(filename) ==
    /\ budget > 0
    /\ LET r == delete_file(fs, filename)
       IN  /\ fs' = r.fs
           /\ result' = TextResult(r.ret)
           /\ deleted' = IF r.ret = DeleteSuccessText THEN deleted \cup {filename} ELSE deleted
    /\ op' = [kind |-> "delete", filename |-> filename, text |-> <<>>]
    /\ budget' = budget - 1
    /\ UNCHANGED <<written, otherVars>>

Search(directory) ==
    /\ budget > 0
    /\ LET r == search_files(fs, directory)
       IN  result' = [raised |-> r.raised, text |-> <<>>, list |-> r.list]
    /\ op' = [kind |-> "search", filename |-> directory, text |-> <<>>]
    /\ budget' = budget - 1
    /\ UNCHANGED <<fs, written, deleted>>
    /\ UNCHANGED otherVars

Next ==
    \/ \E filename \in Filenames : Read(filename)
    \/ \E filename \in Filenames, text \in Texts : Write(filename, text)
    \/ \E filename \in Filenames, text \in AppendTexts : AppendTo(filename, text)
    \/ \E filename \in Filenames : Delete(filename)
    \/ \E directory \in SearchDirs : Search(directory)

Spec == Init /\ [][Next]_vars

----------------------------------------------------------------------------
(* The same operations on two file names, the log's own among them, in     *)
(* longer sequences                                                        *)

LogFilenames == { <<"a">>, LOG_FILE }
LogTexts == { <<"x">> }

InitLog ==
    /\ working_directory_restricted = TRUE
    /\ fs = InitialFs
    /\ op = [kind |-> "none", filename |-> <<>>, text |-> <<>>]
    /\ result = NoResult
    /\ written = {}
    /\ deleted = {}
    /\ budget = MaxLogOps
    /\ JoinIdle
    /\ SplitIdle

NextLog ==
    \/ \E filename \in LogFilenames : Read(filename)
    \/ \E filename \in LogFilenames, text \in LogTexts : Write(filename, text)
    \/ \E filename \in LogFilenames, text \in LogTexts : AppendTo(filename, text)
    \/ \E filename \in LogFilenames : Delete(filename)
    \/ Search(<<>>)

SpecLog == InitLog /\ [][NextLog]_vars

----------------------------------------------------------------------------
(* safe_join on its own: the arguments are drawn in the initial state *)

\* the path segments safe_join is given
Segments ==
    { <<"a">>, <<".", ".">>, <<".">>, <<>>, <<"w">>, <<"w", "2">>,
      <<"/", "a">>, <<"/", "w", "/", "a">>,
      <<".", ".", "/", "w", "2", "/", "a">> }

RECURSIVE SeqsUpTo(_, _)
\* the sequences over S of length 1..n
SeqsUpTo(S, n) ==
    IF n = 0 THEN {}
    ELSE {<<x>> : x \in S}
         \cup {Append(q, x) : q \in SeqsUpTo(S, n - 1), x \in S}

FileStoreIdle ==
    /\ fs = InitialFs
    /\ op = [kind |-> "none", filename |-> <<>>, text |-> <<>>]
    /\ result = NoResult
    /\ written = {}
    /\ deleted = {}
    /\ budget = 0

InitJoin ==
    /\ working_directory_restricted \in BOOLEAN
    /\ jpaths \in SeqsUpTo(Segments, MaxSegments)
    /\ jresult = [state |-> "pending", path |-> <<>>]
    /\ FileStoreIdle
    /\ SplitIdle

SafeJoin ==
    /\ jresult.state = "pending"
    /\ LET j == safe_join(WORKING_DIRECTORY, jpaths)
       IN  jresult' = [state |-> IF j.raised THEN "raised" ELSE "returned", path |-> j.path]
    /\ UNCHANGED <<working_directory_restricted, jpaths, fileStoreVars, splitVars>>

NextJoin == SafeJoin

SpecJoin == InitJoin /\ [][NextJoin]_vars

----------------------------------------------------------------------------
(* split_file: one step per turn of its while loop *)

DefaultMaxLength == 4000
IngestOverlap == 200

\* content[a:b]
py_slice(s, a, b) ==
    LET n == Len(s)
        clamp(i) == IF i < 0 THEN (IF i + n < 0 THEN 0 ELSE i + n)
                    ELSE IF i > n THEN n ELSE i
    IN  SubSeq(s, clamp(a) + 1, clamp(b))

\* the chunk yielded by one turn of the loop
split_chunk(c, st, max_len, ovl) ==
    LET content_length == Len(c)
        end == st + max_len
    IN  IF end + ovl < content_length
          THEN py_slice(c, st, end + ovl)
          ELSE py_slice(c, st, content_length)

\* split_advance with the overlap forgotten: start += max_length
split_advance_no_overlap(st, max_len, ovl) == st + max_len

\* start += max_length - overlap
split_advance(st, max_len, ovl) == st + max_len - ovl

\* the text whose character at index i is i
TextOfLength(n) == [i \in 1..n |-> i - 1]

\* turns of the loop the model follows when the loop would never end
MaxChunks == MaxContentLen + 2

InitSplit ==
    /\ \/ /\ content \in {TextOfLength(n) : n \in 0..MaxContentLen}
          /\ max_length \in 1..MaxMaxLength
          /\ overlap \in (-1)..MaxMaxLength
       \/ /\ content = TextOfLength(DefaultMaxLength + 500)
          /\ max_length = DefaultMaxLength
          /\ overlap = IngestOverlap
    /\ start = 0
    /\ chunks = <<>>
    /\ starts = <<>>
    /\ pc = "loop"
    /\ working_directory_restricted = TRUE
    /\ FileStoreIdle
    /\ JoinIdle

SplitYield ==
    /\ pc = "loop"
    /\ start < Len(content)
    /\ Len(chunks) < MaxChunks
    /\ chunks' = Append(chunks, split_chunk(content, start, max_length, overlap))
    /\ starts' = Append(starts, start)
    /\ start' = split_advance(start, max_length, overlap)
    /\ UNCHANGED <<content, max_length, overlap, pc>>
    /\ UNCHANGED <<working_directory_restricted, fileStoreVars, joinVars>>

SplitReturn ==
    /\ pc = "loop"
    /\ ~(start < Len(content))
    /\ pc' = "done"
    /\ UNCHANGED <<content, max_length, overlap, start, chunks, starts>>
    /\ UNCHANGED <<working_directory_restricted, fileStoreVars, joinVars>>

NextSplit == SplitYield \/ SplitReturn

SpecSplit == InitSplit /\ [][NextSplit]_vars

\* list(split_file(...)) in ingest_file draws chunks until the generator ends
SpecSplitFair == SpecSplit /\ WF_vars(NextSplit)

----------------------------------------------------------------------------
(* Claims about the operation log, under SpecLog *)

\* a call was made in this step
Called == budget' = budget - 1

\* the content of the log file, empty when there is none
log_content(f) ==
    IF LOG_FILE_PATH \in DOMAIN f.files THEN f.files[LOG_FILE_PATH] ELSE <<>>

RECURSIVE text_lines(_, _, _)
\* the complete lines of a text, each without its "\n"
text_lines(s, cur, acc) ==
    IF s = <<>> THEN acc
    ELSE IF Head(s) = "\n" THEN text_lines(Tail(s), <<>>, Append(acc, cur))
    ELSE text_lines(Tail(s), Append(cur, Head(s)), acc)

log_lines(f) == text_lines(log_content(f), <<>>, <<>>)

IsPrefix(s, t) == Len(s) <= Len(t) /\ SubSeq(t, 1, Len(s)) = s

\* C1: once write_to_file(f, _) has returned success, every later
\* write_to_file(f, _) returns "Error: File has already been updated." and
\* leaves the file system as it was, whatever calls were made in between.
C1_WriteOnce ==
    [][\A f \in LogFilenames :
          (Called /\ f \in written /\ op'.kind = "write" /\ op'.filename = f)
              => (result'.text = DuplicateWriteText /\ fs' = fs)]_vars

\* C8: once delete_file(f) has returned success, a later delete_file(f)
\* made when f exists again returns "Error: File has already been deleted."
\* and changes neither the tree nor the log.
C8_DeleteAfterDelete ==
    [][\A f \in LogFilenames :
          (/\ Called
           /\ f \in deleted
           /\ WORKING_DIRECTORY \o <<"/">> \o f \in DOMAIN fs.files
           /\ op'.kind = "delete"
           /\ op'.filename = f)
              => (result'.text = DuplicateDeleteText /\ fs' = fs)]_vars

\* C9: the log is append-only: the entry lines of the log after a step
\* extend the entry lines before it.
C9_LogAppendOnly ==
    [][IsPrefix(log_lines(fs), log_lines(fs'))]_vars

\* the success text of an operation kind
SuccessText(kind) ==
    CASE kind = "write" -> WriteSuccessText
      [] kind = "append" -> AppendSuccessText
      [] kind = "delete" -> DeleteSuccessText
      [] OTHER -> <<>>

\* C10: a successful write, append or delete of a file f (other than the
\* log itself) appends exactly one entry line to the log, the line of that
\* operation and f, after the header when the log is new.
C10_OneEntryPerOperation ==
    [][(/\ Called
        /\ op'.kind \in {"write", "append", "delete"}
        /\ op'.filename # LOG_FILE
        /\ result'.text = SuccessText(op'.kind))
           => log_content(fs') =
                 (IF LOG_FILE_PATH \in DOMAIN fs.files THEN log_content(fs) ELSE LogHeader)
                 \o log_entry(op'.kind, op'.filename)]_vars

----------------------------------------------------------------------------
(* Claims about the file operations, under Spec *)

\* C3: write_to_file(f, text) that succeeds (f had no "write" entry in the
\* log), followed at once by read_file(f), returns exactly text; stated
\* here for every f but the log file, to which the write itself appends.
C3_WriteReadRoundTrip ==
    [][(/\ Called
        /\ op.kind = "write"
        /\ op.filename # LOG_FILE
        /\ result.text = WriteSuccessText
        /\ op'.kind = "read"
        /\ op'.filename = op.filename)
           => result'.text = op.text]_vars

\* the call made last met the path-escape failure
MetPathEscape ==
    /\ op.kind \in {"read", "write", "append", "delete", "search"}
    /\ ~(op.kind = "search" /\ op.filename \in {<<>>, <<"/">>})
    /\ safe_join(WORKING_DIRECTORY, <<op.filename>>).raised

\* C4: none of the five operations ever propagates an exception; one that
\* meets the path-escape failure returns a text that starts with "Error: ".
C4_ErrorsReturnedAsText ==
    /\ ~result.raised
    /\ MetPathEscape => startswith(result.text, <<"Error: ">>)

\* the relative paths search_files returns for a directory argument
Found(directory) == search_files(fs, directory).list

\* C5 (as claimed): search("") and search("/") return the same list, and no
\* component of a returned path, directory or file name, starts with ".".
C5_NoDotComponent ==
    /\ search_files(fs, <<>>) = search_files(fs, <<"/">>)
    /\ \A directory \in SearchDirs :
          \A i \in 1..Len(Found(directory)) :
             \A c \in 1..Len(path_comps(Found(directory)[i])) :
                ~startswith(path_comps(Found(directory)[i])[c], <<".">>)

\* C5 (amended): search("") and search("/") return the same list, and the
\* file name of a returned path, its last component, never starts with ".";
\* files that are not dot files are returned also from inside a directory
\* whose name starts with ".".
C5_SearchRootAndDotFiles ==
    /\ search_files(fs, <<>>) = search_files(fs, <<"/">>)
    /\ ~search_files(fs, <<>>).raised
    /\ \A directory \in SearchDirs :
          \A i \in 1..Len(Found(directory)) :
             ~startswith(basename(Found(directory)[i]), <<".">>)
    /\ \A p \in DOMAIN fs.files :
          (startswith(p, WORKING_DIRECTORY \o <<"/">>) /\ ~startswith(basename(p), <<".">>))
              => \E i \in 1..Len(Found(<<>>)) :
                    Found(<<>>)[i] = relpath(p, WORKING_DIRECTORY)

\* C5 witness: search("") was called on a tree that holds a dot file and a
\* file in a dot directory, and returned the latter only.
C5_Witness ==
    /\ op.kind = "search"
    /\ op.filename = <<>>
    /\ WORKING_DIRECTORY \o <<"/", ".", "h">> \in DOMAIN fs.files
    /\ WORKING_DIRECTORY \o <<"/", ".", "d", "/", "a">> \in DOMAIN fs.files
    /\ \E i \in 1..Len(result.list) : result.list[i] = <<".", "d", "/", "a">>
    /\ \A i \in 1..Len(result.list) : result.list[i] # <<".", "h">>

----------------------------------------------------------------------------
(* Claim about safe_join, under SpecJoin *)

\* C2: with restriction enabled, a path safe_join returns is base itself or
\* lies inside the directory tree rooted at base.
C2_JoinStaysInsideBase ==
    (working_directory_restricted /\ jresult.state = "returned")
        => \/ jresult.path = WORKING_DIRECTORY
           \/ startswith(jresult.path, WORKING_DIRECTORY \o <<"/">>)

----------------------------------------------------------------------------
(* Claims about split_file, under SpecSplit and SpecSplitFair *)

Min(a, b) == IF a < b THEN a ELSE b

\* the indices of content that chunk k holds
ChunkRange(k) == {i \in 0..(Len(content) - 1) :
                     starts[k] <= i /\ i < starts[k] + Len(chunks[k])}

\* the chunks cover every index of content
Covered == UNION {ChunkRange(k) : k \in 1..Len(chunks)} = 0..(Len(content) - 1)

\* C6: for 0 < overlap < max_length, chunk k+1 starts max_length - overlap
\* after chunk k, and the two share exactly the characters from the start of
\* chunk k+1 up to start_k + max_length (or the end of the content); content
\* of length 4500 with max_length 4000 and overlap 200 gives 2 chunks, the
\* second from 3800, sharing [3800, 4000).
C6_ChunkLayout ==
    (pc = "done" /\ 0 < overlap /\ overlap < max_length) =>
        /\ \A k \in 1..(Len(chunks) - 1) :
              /\ starts[k + 1] = starts[k] + (max_length - overlap)
              /\ ChunkRange(k) \cap ChunkRange(k + 1)
                    = starts[k + 1]..(Min(starts[k] + max_length, Len(content)) - 1)
        /\ (Len(content) = DefaultMaxLength + 500 /\ max_length = DefaultMaxLength
               /\ overlap = IngestOverlap)
              => /\ Len(chunks) = 2
                 /\ starts[2] = DefaultMaxLength - IngestOverlap
                 /\ ChunkRange(1) \cap ChunkRange(2)
                       = (DefaultMaxLength - IngestOverlap)..(DefaultMaxLength - 1)

\* what holds of split_file in every state, given 0 <= overlap < max_length
TotalityInvariant ==
    /\ \A k \in 1..Len(starts) : starts[k] = (k - 1) * (max_length - overlap)
    /\ start = Len(chunks) * (max_length - overlap)
    /\ Len(chunks) <= Len(content)
    /\ \A k \in 1..Len(chunks) :
          chunks[k] = SubSeq(content, starts[k] + 1, starts[k] + Len(chunks[k]))
    /\ pc = "done" => Covered
    /\ (pc = "done" /\ content = <<>>) => chunks = <<>>

\* C7 (amended): for every content and 0 <= overlap < max_length, split_file
\* ends after at most len(content) chunks, the chunk starts advance by
\* max_length - overlap from 0, and the chunks cover every index of the
\* content; empty content gives no chunk.
C7_ChunkingTotality ==
    /\ []((0 <= overlap /\ overlap < max_length) => TotalityInvariant)
    /\ (0 <= overlap /\ overlap < max_length) => <>(pc = "done")

\* C7 (as claimed): for every overlap < max_length the chunks cover every
\* index of the content once split_file has ended.
C7_TotalityForAnyOverlapBelowMax ==
    (pc = "done" /\ overlap < max_length) => Covered

\* C7 witness: split_file has ended after three or more overlapping chunks.
C7_Witness ==
    /\ pc = "done"
    /\ 0 < overlap
    /\ overlap < max_length
    /\ Len(chunks) >= 3
    /\ Covered

====
